---- MODULE Spec2Model ----
(***************************************************************************)
(* A4L Timesheet: the record store (users, timesheets), the session cookie *)
(* of the requesting browser, and one action per route handler of          *)
(* app/routes.py.  Timestamps are minutes; total_hours and pto_earned are  *)
(* kept in hundredths (the code rounds both to 2 decimal places).          *)
(***************************************************************************)
EXTENDS Integers, Sequences, FiniteSets, TLC

\* ------------------------------------------------------------------ bounds
\* At most this many timesheet rows are created.
MaxSheets == 2
\* Timestamps of the calculator specification range over 0..MaxMinute.
MaxMinute == 1020
\* Requests that can be between their last query and their commit at one
\* time, while other requests are served from start to end.
MaxInFlight == 1

\* ------------------------------------------------------------------ values
\* Python None, for a nullable DateTime column and for "no row".
None == -1
\* request.session without "user_id".
NoSession == 0
\* A user id in a session cookie that outlived the database it was signed
\* for: no row of the users table has it.
StaleSession == 4
\* The readings datetime.now() takes (minutes).
ClockReadings == {0, 1}
\* Timesheet ids a request may name: every row that can exist and one more.
SheetIds == 1..(MaxSheets + 1)

\* The workers whose requests are followed step by step (FastAPI runs each
\* `def` handler in a thread of its pool, each with a database session of
\* its own).
Slots == 1..MaxInFlight

\* A form string of the edit page is modelled as the tuple of its numeric
\* fields: <<hh, mm>> for "2024-01-01Thh:mm", << >> for the empty string.
\* <<0, 60>> stands for a string strptime rejects.
DtStrings == { << >>, <<0, 1>>, <<0, 60>> }

\* Text is a sequence of characters; a multi-letter element stands for a run
\* of lower-case characters without blanks.
AdminEmail == <<"admin@a4l.local">>
AdminPassword == "ChangeMe123!"
EmailStrings == { <<"a">>, <<" ", "A">>, <<"b", " ">> }
NameStrings == { <<" ", "n">> }
PasswordStrings == { "pw", AdminPassword }

VARIABLES
  users,       \* table users: sequence of rows, row i has id i
  timesheets,  \* table timesheets: sequence of rows, row i has id i
  session,     \* request.session["user_id"] of the browser (NoSession if absent)
  request,     \* the last request served: handler and path parameter
  response,    \* the response to it: status code and detail / location / template
  calc,        \* a timesheet object handed to recompute_timesheet on its own
  txn          \* per worker: the request it has read the store for and not yet committed

vars == <<users, timesheets, session, request, response, calc, txn>>
store == <<users, timesheets>>

\* ------------------------------------------------------------ text helpers
RECURSIVE lstrip(_)
lstrip(s) == IF s # << >> /\ Head(s) = " " THEN lstrip(Tail(s)) ELSE s

RECURSIVE rstrip(_)
rstrip(s) ==
  IF s # << >> /\ s[Len(s)] = " " THEN rstrip(SubSeq(s, 1, Len(s) - 1)) ELSE s

\* str.strip()
strip(s) == rstrip(lstrip(s))

\* str.lower()
lower(s) == [i \in 1..Len(s) |-> IF s[i] = "A" THEN "a" ELSE IF s[i] = "B" THEN "b" ELSE s[i]]

\* auth.hash_password / auth.verify_password: an opaque one-way credential.
hash_password(pw) == <<"hash", pw>>
verify_password(pw, h) == h = hash_password(pw)

\* ------------------------------------------------------- Clock Calculator
\* round(x, 2) of x = n/d (d > 0), in hundredths, when 100*n/d is no tie.
RoundHundredths(n, d) == (200 * n + d) \div (2 * d)

\* The hundredths h of an hour for which the double product h/100 * 0.05 lies
\* at or below the midpoint h/2000 of two hundredths, so that round(_, 2)
\* returns the lower one (IEEE-754 binary64, as CPython evaluates line 47);
\* at every other h with h % 20 = 10 the product lies above the midpoint.
PtoTiesRoundedDown ==
  { 30, 70, 230, 250, 290, 410, 430, 610, 710, 730, 870, 970, 1170, 1210,
    1250, 1470, 1670, 1690, 1890, 1970, 1990, 2070, 2090, 2150, 2170, 2190,
    2230, 2250 }

\* round(total_hours * 0.05, 2), total_hours given in hundredths.
RoundPto(h) ==
  IF h % 20 = 10
    THEN IF h \in PtoTiesRoundedDown THEN (h - 10) \div 20 ELSE (h + 10) \div 20
    ELSE RoundHundredths(h, 2000)

max(a, b) == IF a >= b THEN a ELSE b

\* recompute_timesheet without the max(total_hours, 0) clamp.
recompute_timesheet_noclamp(ts) ==
  IF ts.clock_in # None /\ ts.clock_out # None
    THEN LET minutes == ts.clock_out - ts.clock_in
             hours == -RoundHundredths(max(-minutes, 0), 60)
                      + RoundHundredths(max(minutes, 0), 60)
         IN [ts EXCEPT !.total_hours = hours,
                       !.pto_earned = IF hours >= 0 THEN RoundPto(hours)
                                                    ELSE -RoundPto(-hours)]
    ELSE [ts EXCEPT !.total_hours = 0, !.pto_earned = 0]

recompute_timesheet(ts) ==
  IF ts.clock_in # None /\ ts.clock_out # None
    THEN LET minutes == ts.clock_out - ts.clock_in
             hours == RoundHundredths(max(minutes, 0), 60)
         IN [ts EXCEPT !.total_hours = hours, !.pto_earned = RoundPto(hours)]
    ELSE [ts EXCEPT !.total_hours = 0, !.pto_earned = 0]

\* datetime.strptime(dt_str, "%Y-%m-%dT%H:%M"): does the string parse?
dt_ok(s) == Len(s) = 2 /\ s[1] \in 0..23 /\ s[2] \in 0..59
\* ... and the datetime it yields; a ValueError is raised when ~dt_ok(s).
parse_dt_local(s) == 60 * s[1] + s[2]

\* ------------------------------------------------------------ store rows
\* models.User; the id is the row's position (autoincrement, no deletes).
User(id, name, email, password_hash, role) ==
  [id |-> id, name |-> name, email |-> email,
   password_hash |-> password_hash, role |-> role]

\* models.Timesheet as INSERTed by me_clock_in: clock_out is NULL and the
\* Column defaults give total_hours = 0 and pto_earned = 0.  The date column
\* is written once and never read, and is left out.
Timesheet(id, user_id, clock_in) ==
  [id |-> id, user_id |-> user_id, clock_in |-> clock_in, clock_out |-> None,
   total_hours |-> 0, pto_earned |-> 0]

\* A worker that holds no request.
Idle == [pc |-> "idle", uid |-> 0, id |-> 0,
         loaded |-> Timesheet(0, 0, None), pending |-> Timesheet(0, 0, None)]

UserIds == 1..Len(users)
TimesheetIds == 1..Len(timesheets)

\* db.query(User).filter(User.email == e).first(): the id found, or None.
find_user_by_email(e) ==
  IF \E i \in UserIds : users[i].email = e
    THEN CHOOSE i \in UserIds :
           users[i].email = e /\ \A j \in UserIds : users[j].email = e => i <= j
    ELSE None

\* ---------------------------------------------------------------- replies
Reply(handler, id, status, detail) ==
  /\ request' = [handler |-> handler, id |-> id]
  /\ response' = [status |-> status, detail |-> detail]

\* get_current_user: the user row's id, or the HTTPException raised; a
\* session naming no stored user is cleared before the 401.
get_current_user ==
  IF session = NoSession
    THEN [ok |-> FALSE, status |-> 401, detail |-> "Not logged in",
          session |-> session, id |-> None]
    ELSE IF session \notin UserIds
      THEN [ok |-> FALSE, status |-> 401, detail |-> "Invalid session",
            session |-> NoSession, id |-> None]
      ELSE [ok |-> TRUE, status |-> 200, detail |-> "",
            session |-> session, id |-> session]

require_login == get_current_user

\* require_admin that never raises.
require_admin_never(uid) == FALSE

\* require_admin(user): does it raise?
require_admin(uid) == users[uid].role # "admin"

\* The HTTPException of get_current_user caught and turned into a redirect to
\* the login page, as home does.
Unauthenticated_redirect(handler, id, auth) ==
  /\ Reply(handler, id, 303, "/login")
  /\ session' = auth.session
  /\ UNCHANGED <<users, timesheets, calc, txn>>

\* The handler ends in the HTTPException of get_current_user.
Unauthenticated(handler, id, auth) ==
  /\ Reply(handler, id, auth.status, auth.detail)
  /\ session' = auth.session
  /\ UNCHANGED <<users, timesheets, calc, txn>>

\* The handler ends without touching the store or the session.
Answer(handler, id, status, detail) ==
  /\ Reply(handler, id, status, detail)
  /\ UNCHANGED <<users, timesheets, session, calc, txn>>

\* ---------------------------------------------------------------- handlers
\* setup_admin without its check for an existing admin row.
setup_admin_exists_never == FALSE

\* setup_admin's query finds a user with the admin email.
setup_admin_exists == find_user_by_email(AdminEmail) # None

setup_admin ==
  IF setup_admin_exists
    THEN Answer("setup_admin", 0, 200, "admin already exists")
    ELSE /\ users' = Append(users, User(Len(users) + 1, <<"Admin">>, AdminEmail,
                                        hash_password(AdminPassword), "admin"))
         /\ Reply("setup_admin", 0, 200, "admin created")
         /\ UNCHANGED <<timesheets, session, calc, txn>>

login_page == Answer("login_page", 0, 200, "login.html")

login(email, password) ==
  LET uid == find_user_by_email(lower(strip(email))) IN
  IF uid = None \/ ~verify_password(password, users[uid].password_hash)
    THEN Answer("login", 0, 200, "Invalid email or password")
    ELSE /\ session' = uid
         /\ Reply("login", 0, 303, "/")
         /\ UNCHANGED <<users, timesheets, calc, txn>>

logout ==
  /\ session' = NoSession
  /\ Reply("logout", 0, 303, "/login")
  /\ UNCHANGED <<users, timesheets, calc, txn>>

home ==
  LET auth == require_login IN
  IF ~auth.ok
    THEN /\ Reply("home", 0, 303, "/login")
         /\ session' = auth.session
         /\ UNCHANGED <<users, timesheets, calc, txn>>
    ELSE Answer("home", 0, 303,
                IF users[auth.id].role = "admin" THEN "/admin" ELSE "/me")

\* The filter on Timesheet.user_id left out of the dashboards' queries.
user_rows_unfiltered(uid) == TimesheetIds

\* db.query(Timesheet).filter(Timesheet.user_id == uid): the ids of the rows.
user_rows(uid) == { i \in TimesheetIds : timesheets[i].user_id = uid }

\* order_by(Timesheet.clock_in.desc().nullslast(), Timesheet.id.desc()):
\* does row i come before row j?
row_precedes(i, j) ==
  LET a == timesheets[i].clock_in
      b == timesheets[j].clock_in
  IN IF a = b THEN i > j
     ELSE IF a = None THEN FALSE
     ELSE IF b = None THEN TRUE
     ELSE a > b

\* The rows S in that order, as the list .all() returns.
RECURSIVE order_rows(_)
order_rows(S) ==
  IF S = {} THEN << >>
  ELSE LET head == CHOOSE i \in S : \A j \in S \ {i} : row_precedes(i, j)
       IN <<head>> \o order_rows(S \ {head})

\* The rows S as a query without order_by returns them (insertion order).
RECURSIVE unordered_rows(_)
unordered_rows(S) ==
  IF S = {} THEN << >>
  ELSE LET head == CHOOSE i \in S : \A j \in S : i <= j
       IN <<head>> \o unordered_rows(S \ {head})

\* `x or 0`
or_zero(x) == IF x = None THEN 0 ELSE x

\* sum(r.total_hours or 0 for r in rows), added left to right.
RECURSIVE sum_total_hours(_)
sum_total_hours(rows) ==
  IF rows = << >> THEN 0
  ELSE sum_total_hours(SubSeq(rows, 1, Len(rows) - 1))
         + or_zero(timesheets[rows[Len(rows)]].total_hours)

\* sum(r.pto_earned or 0 for r in rows)
RECURSIVE sum_pto_earned(_)
sum_pto_earned(rows) ==
  IF rows = << >> THEN 0
  ELSE sum_pto_earned(SubSeq(rows, 1, Len(rows) - 1))
         + or_zero(timesheets[rows[Len(rows)]].pto_earned)

\* next((r for r in rows if r.clock_in and not r.clock_out), None)
RECURSIVE next_open(_)
next_open(rows) ==
  IF rows = << >> THEN None
  ELSE IF timesheets[rows[1]].clock_in # None /\ timesheets[rows[1]].clock_out = None
    THEN rows[1]
    ELSE next_open(Tail(rows))

\* The template context of my_dashboard for user uid: a function of the store.
my_dashboard_context(uid) ==
  LET rows == order_rows(user_rows(uid)) IN
  [rows |-> rows,
   total_hours |-> RoundHundredths(sum_total_hours(rows), 100),
   pto_balance |-> RoundHundredths(sum_pto_earned(rows), 100),
   open_shift |-> next_open(rows)]

\* balances[uid] in the template context of admin_dashboard.
admin_balances(uid) ==
  LET rows == unordered_rows(user_rows(uid)) IN
  [hours |-> RoundHundredths(sum_total_hours(rows), 100),
   pto |-> RoundHundredths(sum_pto_earned(rows), 100)]

my_dashboard ==
  LET auth == require_login IN
  IF ~auth.ok
    THEN Unauthenticated("my_dashboard", 0, auth)
    ELSE Answer("my_dashboard", 0, 200, "user_dashboard.html")

\* Is row i an open shift of user uid (the filter of me_clock_in's query)?
is_open_shift_of(i, uid) ==
  /\ timesheets[i].user_id = uid
  /\ timesheets[i].clock_in # None
  /\ timesheets[i].clock_out = None

\* me_clock_in without its open-shift guard.
has_open_shift_unguarded(uid) == FALSE

\* me_clock_in's query for an open shift of the user finds a row.
has_open_shift(uid) == \E i \in TimesheetIds : is_open_shift_of(i, uid)

\* Clock-ins past their query and not yet committed.
PendingClockIns == Cardinality({ s \in Slots : txn[s].pc = "me_clock_in" })

me_clock_in(now) ==
  LET auth == require_login IN
  IF ~auth.ok
    THEN Unauthenticated("me_clock_in", 0, auth)
    ELSE IF has_open_shift(auth.id)
      THEN Answer("me_clock_in", 0, 303, "/me")
      ELSE /\ Len(timesheets) + PendingClockIns < MaxSheets
           /\ timesheets' =
                Append(timesheets, Timesheet(Len(timesheets) + 1, auth.id, now))
           /\ Reply("me_clock_in", 0, 303, "/me")
           /\ UNCHANGED <<users, session, calc, txn>>

\* me_clock_out's query without the filter on Timesheet.user_id.
clock_out_ignored_any_owner(uid, timesheet_id) ==
  \/ timesheet_id \notin TimesheetIds
  \/ timesheets[timesheet_id].clock_in = None
  \/ timesheets[timesheet_id].clock_out # None

\* me_clock_out finds no row with this id owned by the user, or the row is
\* not an open shift: the request is ignored.
clock_out_ignored(uid, timesheet_id) ==
  \/ timesheet_id \notin TimesheetIds
  \/ timesheets[timesheet_id].user_id # uid
  \/ timesheets[timesheet_id].clock_in = None
  \/ timesheets[timesheet_id].clock_out # None

\* me_clock_out committing without the call of recompute_timesheet.
clock_out_row_stale(ts, now) == [ts EXCEPT !.clock_out = now]

\* The row me_clock_out commits.
clock_out_row(ts, now) == recompute_timesheet([ts EXCEPT !.clock_out = now])

me_clock_out(timesheet_id, now) ==
  LET auth == require_login IN
  IF ~auth.ok
    THEN Unauthenticated("me_clock_out", timesheet_id, auth)
    ELSE IF clock_out_ignored(auth.id, timesheet_id)
      THEN Answer("me_clock_out", timesheet_id, 303, "/me")
      ELSE /\ timesheets' =
                [timesheets EXCEPT ![timesheet_id] = clock_out_row(@, now)]
           /\ Reply("me_clock_out", timesheet_id, 303, "/me")
           /\ UNCHANGED <<users, session, calc, txn>>

\* The edit handlers without their ownership check.
edit_forbidden_never(uid, timesheet_id) == FALSE

\* The ownership check of the two edit handlers raises 403.
edit_forbidden(uid, timesheet_id) ==
  /\ users[uid].role # "admin"
  /\ timesheets[timesheet_id].user_id # uid

\* edit_timesheet_page with the ownership check made before the existence
\* check.
edit_timesheet_page_owner_first(timesheet_id) ==
  LET auth == require_login IN
  IF ~auth.ok
    THEN Unauthenticated("edit_timesheet_page", timesheet_id, auth)
    ELSE IF /\ users[auth.id].role # "admin"
            /\ \/ timesheet_id \notin TimesheetIds
               \/ timesheets[timesheet_id].user_id # auth.id
      THEN Answer("edit_timesheet_page", timesheet_id, 403, "Not allowed")
      ELSE IF timesheet_id \notin TimesheetIds
        THEN Answer("edit_timesheet_page", timesheet_id, 404, "Not found")
        ELSE Answer("edit_timesheet_page", timesheet_id, 200, "edit_timesheet.html")

edit_timesheet_page(timesheet_id) ==
  LET auth == require_login IN
  IF ~auth.ok
    THEN Unauthenticated("edit_timesheet_page", timesheet_id, auth)
    ELSE IF timesheet_id \notin TimesheetIds
      THEN Answer("edit_timesheet_page", timesheet_id, 404, "Not found")
      ELSE IF edit_forbidden(auth.id, timesheet_id)
        THEN Answer("edit_timesheet_page", timesheet_id, 403, "Not allowed")
        ELSE Answer("edit_timesheet_page", timesheet_id, 200, "edit_timesheet.html")

\* `parse_dt_local(s) if s else None` raises ValueError.
dt_raises(s) == s # << >> /\ ~dt_ok(s)

\* edit_timesheet_submit keeping the stored clock_out when the string is empty.
edit_row_keep_closed(ts, clock_in, clock_out) ==
  recompute_timesheet(
    [ts EXCEPT !.clock_in = IF clock_in # << >> THEN parse_dt_local(clock_in) ELSE None,
               !.clock_out = IF clock_out # << >> THEN parse_dt_local(clock_out) ELSE @])

\* edit_timesheet_submit committing without the call of recompute_timesheet.
edit_row_unrecomputed(ts, clock_in, clock_out) ==
  [ts EXCEPT !.clock_in = IF clock_in # << >> THEN parse_dt_local(clock_in) ELSE None,
             !.clock_out = IF clock_out # << >> THEN parse_dt_local(clock_out) ELSE None]

\* The row edit_timesheet_submit commits when neither string raises.
edit_row(ts, clock_in, clock_out) ==
  recompute_timesheet(
    [ts EXCEPT !.clock_in = IF clock_in # << >> THEN parse_dt_local(clock_in) ELSE None,
               !.clock_out = IF clock_out # << >> THEN parse_dt_local(clock_out) ELSE None])

\* A ValueError of parse_dt_local leaves the handler before db.commit(): the
\* assignments made to ts are dropped with the session (get_db closes it) and
\* the server answers 500.
edit_timesheet_submit(timesheet_id, clock_in, clock_out) ==
  LET auth == require_login IN
  IF ~auth.ok
    THEN Unauthenticated("edit_timesheet_submit", timesheet_id, auth)
    ELSE IF timesheet_id \notin TimesheetIds
      THEN Answer("edit_timesheet_submit", timesheet_id, 404, "Not found")
      ELSE IF edit_forbidden(auth.id, timesheet_id)
        THEN Answer("edit_timesheet_submit", timesheet_id, 403, "Not allowed")
        ELSE IF dt_raises(clock_in) \/ dt_raises(clock_out)
          THEN Answer("edit_timesheet_submit", timesheet_id, 500,
                      "Internal Server Error")
          ELSE /\ timesheets' =
                    [timesheets EXCEPT ![timesheet_id] = edit_row(@, clock_in, clock_out)]
               /\ Reply("edit_timesheet_submit", timesheet_id, 303,
                        IF users[auth.id].role = "admin" THEN "/admin" ELSE "/me")
               /\ UNCHANGED <<users, session, calc, txn>>

admin_dashboard ==
  LET auth == require_login IN
  IF ~auth.ok
    THEN Unauthenticated("admin_dashboard", 0, auth)
    ELSE IF require_admin(auth.id)
      THEN Answer("admin_dashboard", 0, 403, "Admin only")
      ELSE Answer("admin_dashboard", 0, 200, "admin_dashboard.html")

admin_create_user(name, email, password) ==
  LET auth == require_login
      email_clean == lower(strip(email))
  IN
  IF ~auth.ok
    THEN Unauthenticated("admin_create_user", 0, auth)
    ELSE IF require_admin(auth.id)
      THEN Answer("admin_create_user", 0, 403, "Admin only")
      ELSE IF find_user_by_email(email_clean) # None
        THEN Answer("admin_create_user", 0, 303, "/admin")
        ELSE /\ users' = Append(users, User(Len(users) + 1, strip(name), email_clean,
                                            hash_password(password), "user"))
             /\ Reply("admin_create_user", 0, 303, "/admin")
             /\ UNCHANGED <<timesheets, session, calc, txn>>

\* ------------------------------------------------------------ specification
NoCalc == [clock_in |-> None, clock_out |-> None, total_hours |-> 0,
           pto_earned |-> 0, done |-> TRUE]

\* An empty database; the browser may still hold a cookie signed before the
\* database was created.
Init ==
  /\ users = << >>
  /\ timesheets = << >>
  /\ session \in {NoSession, StaleSession}
  /\ request = [handler |-> "none", id |-> 0]
  /\ response = [status |-> 0, detail |-> ""]
  /\ calc = NoCalc
  /\ txn = [s \in Slots |-> Idle]

Next ==
  \/ setup_admin
  \/ login_page
  \/ \E e \in EmailStrings \cup {AdminEmail}, p \in PasswordStrings :
       login(e, p)
  \/ logout
  \/ home
  \/ my_dashboard
  \/ \E now \in ClockReadings : me_clock_in(now)
  \/ \E id \in SheetIds, now \in ClockReadings : me_clock_out(id, now)
  \/ \E id \in SheetIds : edit_timesheet_page(id)
  \/ \E id \in SheetIds, ci \in DtStrings, co \in DtStrings :
       edit_timesheet_submit(id, ci, co)
  \/ admin_dashboard
  \/ \E n \in NameStrings, e \in EmailStrings, p \in {"pw"} :
       admin_create_user(n, e, p)

Spec == Init /\ [][Next]_vars

\* The calculator on its own: a timesheet object with any two timestamps of
\* 0..MaxMinute (or None) is handed to recompute_timesheet.
Timestamps == {None} \cup 0..MaxMinute

InitCalc ==
  /\ users = << >>
  /\ timesheets = << >>
  /\ session = NoSession
  /\ request = [handler |-> "none", id |-> 0]
  /\ response = [status |-> 0, detail |-> ""]
  /\ \E ci \in Timestamps, co \in Timestamps :
       calc = [clock_in |-> ci, clock_out |-> co, total_hours |-> 0,
               pto_earned |-> 0, done |-> FALSE]
  /\ txn = [s \in Slots |-> Idle]

Recompute ==
  /\ ~calc.done
  /\ calc' = [recompute_timesheet(calc) EXCEPT !.done = TRUE]
  /\ UNCHANGED <<users, timesheets, session, request, response, txn>>

NextCalc == Recompute

SpecCalc == InitCalc /\ [][NextCalc]_vars

\* ------------------------------------------------- overlapping requests
\* A worker of Slots serves a handler that writes in two steps: everything
\* up to its last query (begin_), and from there to db.commit() and the
\* response (commit_).  Steps of the other workers and whole requests fall
\* in between.  A request that ends without writing is served in its begin_
\* step.

\* db.add(ts); db.commit() on a table with a uniqueness constraint on the
\* open shift of a user.
clock_in_insert_unique(rows, uid, now) ==
  IF \E i \in 1..Len(rows) :
       rows[i].user_id = uid /\ rows[i].clock_in # None /\ rows[i].clock_out = None
    THEN rows
    ELSE Append(rows, Timesheet(Len(rows) + 1, uid, now))

\* db.add(ts); db.commit() of me_clock_in: the table has no constraint
\* besides its primary key.
clock_in_insert(rows, uid, now) ==
  Append(rows, Timesheet(Len(rows) + 1, uid, now))

\* The UPDATE db.commit() issues for an object loaded as `loaded` and now
\* holding `pending`: the unit of work writes the columns whose value differs
\* from the loaded one, the others keep what the row holds by now.
flush(row, loaded, pending) ==
  [f \in DOMAIN row |-> IF pending[f] # loaded[f] THEN pending[f] ELSE row[f]]

begin_me_clock_in(slot) ==
  /\ txn[slot].pc = "idle"
  /\ LET auth == require_login IN
     IF ~auth.ok
       THEN Unauthenticated("me_clock_in", 0, auth)
       ELSE IF has_open_shift(auth.id)
         THEN Answer("me_clock_in", 0, 303, "/me")
         ELSE /\ Len(timesheets) + PendingClockIns < MaxSheets
              /\ txn' = [txn EXCEPT ![slot] =
                           [Idle EXCEPT !.pc = "me_clock_in", !.uid = auth.id]]
              /\ UNCHANGED <<users, timesheets, session, request, response, calc>>

commit_me_clock_in(slot, now) ==
  /\ txn[slot].pc = "me_clock_in"
  /\ timesheets' = clock_in_insert(timesheets, txn[slot].uid, now)
  /\ Reply("me_clock_in", 0, 303, "/me")
  /\ txn' = [txn EXCEPT ![slot] = Idle]
  /\ UNCHANGED <<users, session, calc>>

begin_me_clock_out(slot, timesheet_id) ==
  /\ txn[slot].pc = "idle"
  /\ LET auth == require_login IN
     IF ~auth.ok
       THEN Unauthenticated("me_clock_out", timesheet_id, auth)
       ELSE IF clock_out_ignored(auth.id, timesheet_id)
         THEN Answer("me_clock_out", timesheet_id, 303, "/me")
         ELSE /\ txn' = [txn EXCEPT ![slot] =
                           [pc |-> "me_clock_out", uid |-> auth.id,
                            id |-> timesheet_id,
                            loaded |-> timesheets[timesheet_id],
                            pending |-> timesheets[timesheet_id]]]
              /\ UNCHANGED <<users, timesheets, session, request, response, calc>>

commit_me_clock_out(slot, now) ==
  /\ txn[slot].pc = "me_clock_out"
  /\ timesheets' =
       [timesheets EXCEPT ![txn[slot].id] =
          flush(@, txn[slot].loaded, clock_out_row(txn[slot].loaded, now))]
  /\ Reply("me_clock_out", txn[slot].id, 303, "/me")
  /\ txn' = [txn EXCEPT ![slot] = Idle]
  /\ UNCHANGED <<users, session, calc>>

begin_edit_timesheet_submit(slot, timesheet_id, clock_in, clock_out) ==
  /\ txn[slot].pc = "idle"
  /\ LET auth == require_login IN
     IF ~auth.ok
       THEN Unauthenticated("edit_timesheet_submit", timesheet_id, auth)
       ELSE IF timesheet_id \notin TimesheetIds
         THEN Answer("edit_timesheet_submit", timesheet_id, 404, "Not found")
         ELSE IF edit_forbidden(auth.id, timesheet_id)
           THEN Answer("edit_timesheet_submit", timesheet_id, 403, "Not allowed")
           ELSE IF dt_raises(clock_in) \/ dt_raises(clock_out)
             THEN Answer("edit_timesheet_submit", timesheet_id, 500,
                         "Internal Server Error")
             ELSE /\ txn' = [txn EXCEPT ![slot] =
                               [pc |-> "edit_timesheet_submit", uid |-> auth.id,
                                id |-> timesheet_id,
                                loaded |-> timesheets[timesheet_id],
                                pending |-> edit_row(timesheets[timesheet_id],
                                                     clock_in, clock_out)]]
                  /\ UNCHANGED <<users, timesheets, session, request, response, calc>>

commit_edit_timesheet_submit(slot) ==
  /\ txn[slot].pc = "edit_timesheet_submit"
  /\ timesheets' =
       [timesheets EXCEPT ![txn[slot].id] =
          flush(@, txn[slot].loaded, txn[slot].pending)]
  /\ Reply("edit_timesheet_submit", txn[slot].id, 303,
           IF users[txn[slot].uid].role = "admin" THEN "/admin" ELSE "/me")
  /\ txn' = [txn EXCEPT ![slot] = Idle]
  /\ UNCHANGED <<users, session, calc>>

\* Clock-ins of one browser overlapping each other; shifts are closed by
\* me_clock_out and never edited.
NextClockInRace ==
  \/ setup_admin
  \/ login(AdminEmail, AdminPassword)
  \/ \E now \in ClockReadings : me_clock_in(now)
  \/ \E slot \in Slots : begin_me_clock_in(slot)
  \/ \E slot \in Slots, now \in ClockReadings : commit_me_clock_in(slot, now)
  \/ \E id \in SheetIds, now \in ClockReadings : me_clock_out(id, now)

SpecClockInRace == Init /\ [][NextClockInRace]_vars

\* A worker is between the query and the commit of this handler.
InFlight(handler) == \E s \in Slots : txn[s].pc = handler

\* A clock-out overlapping an edit and an edit overlapping a clock-out: a
\* request is served while one of the other handler is in flight, never
\* while one of its own handler is.  Shifts are opened by me_clock_in.
NextUpdateRace ==
  \/ setup_admin
  \/ login(AdminEmail, AdminPassword)
  \/ \E now \in ClockReadings : me_clock_in(now)
  \/ /\ ~InFlight("me_clock_out")
     /\ \E id \in SheetIds, now \in ClockReadings : me_clock_out(id, now)
  \/ /\ ~InFlight("me_clock_out")
     /\ \E slot \in Slots, id \in SheetIds : begin_me_clock_out(slot, id)
  \/ /\ ~InFlight("edit_timesheet_submit")
     /\ \E id \in SheetIds, ci \in DtStrings, co \in DtStrings :
          edit_timesheet_submit(id, ci, co)
  \/ /\ ~InFlight("edit_timesheet_submit")
     /\ \E slot \in Slots, id \in SheetIds, ci \in DtStrings, co \in DtStrings :
          begin_edit_timesheet_submit(slot, id, ci, co)
  \/ \E slot \in Slots, now \in ClockReadings : commit_me_clock_out(slot, now)
  \/ \E slot \in Slots : commit_edit_timesheet_submit(slot)

SpecUpdateRace == Init /\ [][NextUpdateRace]_vars

\* =================================================================== claims
\* The open shifts of a user: rows with clock_in set and clock_out unset.
OpenShifts(uid) == { i \in TimesheetIds : is_open_shift_of(i, uid) }

\* C1 (invariant I1): in every state reachable by clock-in, clock-out and
\* edit requests, every user has at most one open shift.
C1_AtMostOneOpenShift ==
  \A uid \in UserIds : Cardinality(OpenShifts(uid)) <= 1

\* C2 (invariants I2, I3): every stored row carries the derived fields its
\* two timestamps determine, and (0, 0) when either timestamp is unset.
C2_DerivedFieldsFresh ==
  \A i \in TimesheetIds :
    LET ts == timesheets[i] IN
    /\ ts.total_hours = recompute_timesheet(ts).total_hours
    /\ ts.pto_earned = recompute_timesheet(ts).pto_earned
    /\ (ts.clock_in = None \/ ts.clock_out = None)
         => (ts.total_hours = 0 /\ ts.pto_earned = 0)

\* C2 witness: a clock-out has closed a shift with a positive total.
C2_Witness ==
  /\ request.handler = "me_clock_out"
  /\ request.id \in TimesheetIds
  /\ timesheets[request.id].clock_out # None
  /\ timesheets[request.id].total_hours > 0

\* C3: recompute_timesheet gives the hundredth of an hour nearest to the
\* elapsed time and the hundredth nearest to 5% of it when clock_out >=
\* clock_in, (0, 0) when clock_out < clock_in, never a negative value, 8.00
\* and 0.40 for 09:00 to 17:00, and (0, 0) for equal timestamps.
C3_CalculatorMatchesReference ==
  calc.done =>
    LET ci == calc.clock_in
        co == calc.clock_out
        H == calc.total_hours
        P == calc.pto_earned
    IN /\ H >= 0 /\ P >= 0
       /\ (ci # None /\ co # None /\ co >= ci) =>
            /\ 6 * H - 10 * (co - ci) \in -3..3
            /\ 20 * P - H \in -10..10
       /\ (ci # None /\ co # None /\ co < ci) => (H = 0 /\ P = 0)
       /\ (ci = 540 /\ co = 1020) => (H = 800 /\ P = 40)
       /\ (ci # None /\ co = ci) => (H = 0 /\ P = 0)

\* C3 witness: the calculator has run on 09:00 to 17:00.
C3_Witness ==
  /\ calc.done
  /\ calc.clock_in = 540 /\ calc.clock_out = 1020
  /\ calc.total_hours = 800 /\ calc.pto_earned = 40

\* The caller of the request being served is a stored user.
Authenticated == session # NoSession /\ session \in UserIds

\* C4: a clock-in by a user with no open shift appends exactly one row, owned
\* by that user, with clock_in set, clock_out unset and derived fields 0, and
\* the user then has exactly one open shift; a clock-in by a user who has an
\* open shift leaves the whole store unchanged.
C4_ClockInIdempotent ==
  [][ (request'.handler = "me_clock_in" /\ Authenticated) =>
        IF OpenShifts(session) = {}
          THEN /\ Len(timesheets') = Len(timesheets) + 1
               /\ SubSeq(timesheets', 1, Len(timesheets)) = timesheets
               /\ LET ts == timesheets'[Len(timesheets')] IN
                    /\ ts.user_id = session
                    /\ ts.clock_in \in ClockReadings
                    /\ ts.clock_out = None
                    /\ ts.total_hours = 0 /\ ts.pto_earned = 0
               /\ users' = users
               /\ Cardinality(OpenShifts(session)') = 1
          ELSE UNCHANGED store ]_vars

\* C4 witness: a clock-in was served and its user has exactly one open shift.
C4_Witness ==
  /\ request.handler = "me_clock_in"
  /\ response.status = 303
  /\ Authenticated
  /\ Cardinality(OpenShifts(session)) = 1

\* C5: a clock-out on a shift id that does not exist, is owned by another
\* user (whatever the caller's role), has clock_in unset or has clock_out
\* set leaves the store unchanged and answers with the usual redirect.
C5_ClockOutNoOp ==
  [][ ( /\ request'.handler = "me_clock_out"
        /\ Authenticated
        /\ \/ request'.id \notin TimesheetIds
           \/ timesheets[request'.id].user_id # session
           \/ timesheets[request'.id].clock_in = None
           \/ timesheets[request'.id].clock_out # None )
      => /\ UNCHANGED store
         /\ response' = [status |-> 303, detail |-> "/me"] ]_vars

\* C5 witness: an admin's clock-out named another user's open shift, which
\* is still open.
C5_Witness ==
  /\ request.handler = "me_clock_out"
  /\ response.status = 303
  /\ Authenticated
  /\ users[session].role = "admin"
  /\ request.id \in TimesheetIds
  /\ timesheets[request.id].user_id # session
  /\ timesheets[request.id].clock_in # None
  /\ timesheets[request.id].clock_out = None

\* C6: a clock-out of an open shift owned by the caller sets clock_out to the
\* current time, recomputes the derived fields, changes no other row, and
\* leaves the caller without any open shift.
C6_ClockOutClosesUser ==
  [][ ( /\ request'.handler = "me_clock_out"
        /\ Authenticated
        /\ request'.id \in TimesheetIds
        /\ is_open_shift_of(request'.id, session) )
      => /\ users' = users
         /\ Len(timesheets') = Len(timesheets)
         /\ \A i \in TimesheetIds : i # request'.id => timesheets'[i] = timesheets[i]
         /\ timesheets'[request'.id].clock_out \in ClockReadings
         /\ timesheets'[request'.id] = recompute_timesheet(timesheets'[request'.id])
         /\ timesheets'[request'.id].clock_in = timesheets[request'.id].clock_in
         /\ OpenShifts(session)' = {} ]_vars

\* C7: an edit of an existing shift is refused as forbidden (403) iff the
\* caller is neither an admin nor the shift's owner; a refused edit leaves
\* the store unchanged; an edit that is not refused and whose two strings
\* parse is applied to exactly that row.
C7_EditAuthorization ==
  [][ ( /\ request'.handler = "edit_timesheet_submit"
        /\ Authenticated
        /\ request'.id \in TimesheetIds )
      => LET id == request'.id
             allowed == \/ users[session].role = "admin"
                        \/ timesheets[id].user_id = session
         IN /\ (response'.status = 403) <=> ~allowed
            /\ ~allowed => /\ response'.detail = "Not allowed"
                           /\ UNCHANGED store
            /\ \A ci \in DtStrings, co \in DtStrings :
                 ( /\ allowed
                   /\ ~dt_raises(ci) /\ ~dt_raises(co)
                   /\ edit_timesheet_submit(id, ci, co) )
                 => /\ response'.status = 303
                    /\ users' = users
                    /\ timesheets' =
                         [timesheets EXCEPT ![id] = edit_row(@, ci, co)] ]_vars

\* C7 witness: a non-admin's edit of another user's shift was refused.
C7_Witness ==
  /\ request.handler = "edit_timesheet_submit"
  /\ response.status = 403
  /\ Authenticated
  /\ users[session].role # "admin"
  /\ request.id \in TimesheetIds
  /\ timesheets[request.id].user_id # session

\* C8: a request of a handler behind require_login that carries no session
\* user id, or one matching no stored user, is answered 401 and changes
\* neither users nor timesheets.
C8_UnauthenticatedDenied ==
  [][ ( /\ request'.handler \in
             {"me_clock_in", "me_clock_out", "edit_timesheet_page",
              "edit_timesheet_submit", "my_dashboard", "admin_dashboard",
              "admin_create_user"}
        /\ ~Authenticated )
      => /\ response'.status = 401
         /\ UNCHANGED store ]_vars

\* C8 witness: a create-user request with a session matching no stored user
\* was answered 401.
C8_Witness ==
  /\ request.handler = "admin_create_user"
  /\ response = [status |-> 401, detail |-> "Invalid session"]
  /\ session = NoSession

\* C9: the admin dashboard and create-user are served to an admin and are
\* answered 403, with the store unchanged, to any other authenticated user.
C9_AdminOnly ==
  [][ ( /\ request'.handler \in {"admin_dashboard", "admin_create_user"}
        /\ Authenticated )
      => IF users[session].role = "admin"
           THEN response'.status =
                  (IF request'.handler = "admin_dashboard" THEN 200 ELSE 303)
           ELSE /\ response' = [status |-> 403, detail |-> "Admin only"]
                /\ UNCHANGED store ]_vars

\* C9 witness: a non-admin's create-user request was refused while an email
\* of the form was still free.
C9_Witness ==
  /\ request.handler = "admin_create_user"
  /\ response.status = 403
  /\ Authenticated
  /\ users[session].role # "admin"
  /\ \E e \in EmailStrings : find_user_by_email(lower(strip(e))) = None

\* C10: an authorized edit with a malformed clock_in or clock_out string is
\* answered with a validation error (422) naming the malformed field, and
\* leaves the store unchanged.
C10_MalformedEditValidationError ==
  [][ \A id \in SheetIds, ci \in DtStrings, co \in DtStrings :
        ( /\ Authenticated
          /\ id \in TimesheetIds
          /\ ~edit_forbidden(session, id)
          /\ (dt_raises(ci) \/ dt_raises(co))
          /\ edit_timesheet_submit(id, ci, co) )
        => /\ response'.status = 422
           /\ response'.detail = (IF dt_raises(ci) THEN "clock_in" ELSE "clock_out")
           /\ UNCHANGED store ]_vars

\* C11: a create-user request of an admin whose normalized email is already
\* stored fails with a conflict outcome signalled to the caller (409, not the
\* redirect of a successful creation) and creates no user; no two stored
\* users share an email.
C11_DuplicateEmailConflict ==
  [][ \A n \in NameStrings, e \in EmailStrings :
        ( /\ Authenticated
          /\ ~require_admin(session)
          /\ find_user_by_email(lower(strip(e))) # None
          /\ admin_create_user(n, e, "pw") )
        => /\ response'.status = 409
           /\ users' = users
           /\ \A i, j \in 1..Len(users') :
                users'[i].email = users'[j].email => i = j ]_vars

\* C12: when my_dashboard answers a user who has more than one open shift,
\* the open shift it reports is the one created last (the greatest id).
C12_ReportsNewestOpenShift ==
  ( /\ request.handler = "my_dashboard"
    /\ response.status = 200
    /\ Cardinality(OpenShifts(session)) > 1 )
  => /\ my_dashboard_context(session).open_shift \in OpenShifts(session)
     /\ \A i \in OpenShifts(session) :
          i <= my_dashboard_context(session).open_shift

\* Every order in which the rows S can be listed.
Orderings(S) ==
  { p \in [1..Cardinality(S) -> S] : \A a, b \in DOMAIN p : p[a] = p[b] => a = b }

Admins(rows) == { i \in 1..Len(rows) : rows[i].role = "admin" }

\* C14: after every request at most one user has role admin; a setup_admin
\* request made while an admin is stored leaves users and timesheets
\* unchanged; every user admin_create_user adds has role user.
C14_SetupAdminIdempotent ==
  [][ /\ Cardinality(Admins(users')) <= 1
      /\ (request'.handler = "setup_admin" /\ Admins(users) # {})
           => UNCHANGED store
      /\ request'.handler = "admin_create_user"
           => \A i \in 1..Len(users') :
                i \notin UserIds => users'[i].role = "user" ]_vars

\* setup_admin has been called again with the admin and a created user stored.
C14_Witness ==
  /\ request.handler = "setup_admin"
  /\ response.detail = "admin already exists"
  /\ Cardinality(Admins(users)) = 1
  /\ \E i \in UserIds : users[i].role = "user"

\* The caller may edit row id: logged in, the row exists, owner or admin.
EditAuthorized(id) ==
  /\ Authenticated
  /\ id \in TimesheetIds
  /\ (users[session].role = "admin" \/ timesheets[id].user_id = session)

\* The open shifts of user uid among the rows.
OpenRows(rows, uid) ==
  { i \in 1..Len(rows) :
      rows[i].user_id = uid /\ rows[i].clock_in # None /\ rows[i].clock_out = None }

\* C15: an authorized edit whose strings are empty or parsable succeeds
\* whatever the row and the owner's other rows hold: the row gets both
\* timestamps of the request (unset for an empty string) and derived fields
\* recomputed from them, no other row changes, and a row edited to clock_in
\* set and clock_out unset is open afterwards next to every open shift the
\* owner already had.
C15_EditUnconditional ==
  [][ request'.handler = "edit_timesheet_submit" =>
      \A id \in {request'.id}, ci \in DtStrings, co \in DtStrings :
        ( /\ EditAuthorized(id)
          /\ ~dt_raises(ci) /\ ~dt_raises(co)
          /\ edit_timesheet_submit(id, ci, co) )
        => LET new == timesheets'[id]
               owner == timesheets[id].user_id
           IN /\ response'.status = 303
              /\ new.clock_in = (IF ci = << >> THEN None ELSE 60 * ci[1] + ci[2])
              /\ new.clock_out = (IF co = << >> THEN None ELSE 60 * co[1] + co[2])
              /\ new = recompute_timesheet(new)
              /\ new.user_id = owner /\ new.id = id
              /\ Len(timesheets') = Len(timesheets)
              /\ \A j \in TimesheetIds : j # id => timesheets'[j] = timesheets[j]
              /\ (ci # << >> /\ co = << >>)
                   => OpenRows(timesheets', owner)
                        = OpenRows(timesheets, owner) \cup {id} ]_vars

\* An edit has reopened a shift whose owner had another open shift: two open
\* shifts of one user.
C15_Witness ==
  /\ request.handler = "edit_timesheet_submit"
  /\ response.status = 303
  /\ request.id \in TimesheetIds
  /\ request.id \in OpenShifts(timesheets[request.id].user_id)
  /\ Cardinality(OpenShifts(timesheets[request.id].user_id)) = 2

C18_NotFoundBeforeForbidden ==
  [][ ( /\ request'.handler \in {"edit_timesheet_page", "edit_timesheet_submit"}
        /\ Authenticated )
      => /\ request'.id \notin TimesheetIds
              => /\ response' = [status |-> 404, detail |-> "Not found"]
                 /\ UNCHANGED <<users, timesheets, session>>
         /\ response'.status = 404 => request'.id \notin TimesheetIds
         /\ response'.status = 403
              => /\ request'.id \in TimesheetIds
                 /\ timesheets[request'.id].user_id # session
                 /\ users[session].role # "admin" ]_vars

\* A non-admin has submitted an edit for an id without a row while a shift
\* of another user is stored, and was answered 404.
C18_Witness ==
  /\ request.handler = "edit_timesheet_submit"
  /\ response.status = 404
  /\ Authenticated
  /\ users[session].role # "admin"
  /\ request.id \notin TimesheetIds
  /\ \E i \in TimesheetIds : timesheets[i].user_id # session

\* C19: a request of a logged-in non-admin to me_clock_in, me_clock_out,
\* edit_timesheet_submit or admin_create_user leaves the users table and
\* every timesheet of every other user as they were; and no request of
\* anyone changes the user_id or id of a timesheet or removes a row.
C19_Isolation ==
  [][ /\ ( /\ Authenticated
           /\ users[session].role # "admin"
           /\ request'.handler \in {"me_clock_in", "me_clock_out",
                                    "edit_timesheet_submit", "admin_create_user"} )
         => /\ users' = users
            /\ \A i \in TimesheetIds :
                 timesheets[i].user_id # session => timesheets'[i] = timesheets[i]
      /\ Len(timesheets') >= Len(timesheets)
      /\ \A i \in TimesheetIds :
           /\ timesheets'[i].user_id = timesheets[i].user_id
           /\ timesheets'[i].id = timesheets[i].id ]_vars

\* A non-admin has asked to clock out the open shift of another user, which
\* is still open.
C19_Witness ==
  /\ request.handler = "me_clock_out"
  /\ Authenticated
  /\ users[session].role # "admin"
  /\ request.id \in TimesheetIds
  /\ timesheets[request.id].user_id # session
  /\ request.id \in OpenShifts(timesheets[request.id].user_id)

\* C17: a clock-in whose query found no open shift creates an open timesheet
\* of its user when it commits, whatever has been committed since the query;
\* so two clock-ins of one user that both run the query before either
\* commits both create one, and the user has two open shifts.
C17_ClockInCheckThenCreate ==
  [][ \A s \in Slots :
        ( txn[s].pc = "me_clock_in" /\ txn'[s].pc = "idle" )
        => /\ Len(timesheets') = Len(timesheets) + 1
           /\ timesheets'[Len(timesheets')].user_id = txn[s].uid
           /\ timesheets'[Len(timesheets')].clock_in # None
           /\ timesheets'[Len(timesheets')].clock_out = None
           /\ \A i \in TimesheetIds : timesheets'[i] = timesheets[i] ]_vars

\* Two clock-ins of one user have both committed: two open shifts.
C17_Witness ==
  /\ request.handler = "me_clock_in"
  /\ \A s \in Slots : txn[s].pc = "idle"
  /\ \E uid \in UserIds : Cardinality(OpenShifts(uid)) = 2

\* C20: with clock-outs and edits overlapping, the derived fields of every
\* committed row are those recompute_timesheet gives for the row's stored
\* clock_in and clock_out.
C20_DerivedFieldsFreshInterleaved ==
  \A i \in TimesheetIds :
    /\ timesheets[i].total_hours = recompute_timesheet(timesheets[i]).total_hours
    /\ timesheets[i].pto_earned = recompute_timesheet(timesheets[i]).pto_earned

====
